---- MODULE Spec2Model ----
(***************************************************************************)
(* Model of client/src/pages/services.tsx (ServicesPage): the dialog form  *)
(* of the services page, its two mutations (create, update), the salon     *)
(* query, the toasts and the redirect timer.                               *)
(*                                                                         *)
(* JavaScript values are tagged records (typeof + payload), strings are    *)
(* sequences of one-character strings, so that trimming, parsing and the   *)
(* schema's length test are computed and not assumed.                      *)
(***************************************************************************)
EXTENDS Integers, Sequences, FiniteSets, TLC

VARIABLES
  isDialogOpen,          \* useState(false), line 62
  editing,               \* useState(null), line 63: NoService or a service object
  draft,                 \* react-hook-form's field values
  defaultValues,         \* react-hook-form's _defaultValues (what reset() restores)
  hasErrors,             \* formState.errors is not empty (a submit was rejected)
  salon,                 \* data of useQuery ["/api/salon"], line 68
  createServiceMutation, \* observer state of the create mutation
  updateServiceMutation, \* observer state of the update mutation
  requests,              \* requests handed to apiRequest and not yet settled
  nextSeq,               \* number of requests issued so far
  lastOutcome,           \* what apiRequest did for the request submitted last, once settled
  toasts,                \* toasts shown, oldest first
  invalidations,         \* calls of queryClient.invalidateQueries(["/api/services"])
  navTimers,             \* pending setTimeout(..., 500) callbacks
  location,              \* window.location.href
  services,              \* data of useQuery ["/api/services"], line 70 (shown list)
  edits                  \* keystrokes/toggles made in the form so far

vars == <<isDialogOpen, editing, draft, defaultValues, hasErrors, salon,
          createServiceMutation, updateServiceMutation, requests, nextSeq,
          lastOutcome, toasts, invalidations, navTimers, location, services,
          edits>>

----------------------------------------------------------------------------
(* Bounds of the exploration *)

MaxRequests == 2     \* requests issued in one run
MaxEdits == 1        \* field edits made by the user in one run
MaxLen == 2          \* length of the strings typed into a numeric input

----------------------------------------------------------------------------
(* JavaScript values *)

Num(n) == [t |-> "number", n |-> n, s |-> <<>>, b |-> FALSE]
Str(s) == [t |-> "string", n |-> 0, s |-> s, b |-> FALSE]
Bool(b) == [t |-> "boolean", n |-> 0, s |-> <<>>, b |-> b]
Arr(s) == [t |-> "array", n |-> 0, s |-> s, b |-> FALSE]
Undefined == [t |-> "undefined", n |-> 0, s |-> <<>>, b |-> FALSE]
Null == [t |-> "null", n |-> 0, s |-> <<>>, b |-> FALSE]

\* a JavaScript number: a finite integer, or NaN
Fin(n) == [finite |-> TRUE, n |-> n]
NaN == [finite |-> FALSE, n |-> 0]

Digits == {"1", "5"}
Chars == Digits \cup {" ", "-", "a"}

DigitValue(c) == IF c = "1" THEN 1 ELSE 5

\* String.prototype.trim: drop the leading and the trailing white space
RECURSIVE TrimStart(_)
TrimStart(s) ==
  IF s # <<>> /\ Head(s) = " " THEN TrimStart(Tail(s)) ELSE s

RECURSIVE TrimEnd(_)
TrimEnd(s) ==
  IF s # <<>> /\ s[Len(s)] = " " THEN TrimEnd(SubSeq(s, 1, Len(s) - 1)) ELSE s

Trim(s) == TrimEnd(TrimStart(s))

\* value of a run of decimal digits, NaN when another character occurs
RECURSIVE DigitsValue(_, _)
DigitsValue(s, acc) ==
  IF s = <<>> THEN Fin(acc)
  ELSE IF Head(s) \notin Digits THEN NaN
  ELSE DigitsValue(Tail(s), 10 * acc + DigitValue(Head(s)))

\* value of the longest prefix of decimal digits (parseInt), NaN when it is empty
RECURSIVE DigitsPrefix(_, _, _)
DigitsPrefix(s, acc, seen) ==
  IF s = <<>> \/ Head(s) \notin Digits
  THEN IF seen THEN Fin(acc) ELSE NaN
  ELSE DigitsPrefix(Tail(s), 10 * acc + DigitValue(Head(s)), TRUE)

\* Number(string): white space around the literal is skipped, the empty
\* literal is 0, an optionally signed run of digits is its value, anything
\* else is NaN
JsNumber(s) ==
  LET u == Trim(s)
  IN  IF u = <<>> THEN Fin(0)
      ELSE IF Head(u) = "-"
           THEN IF Tail(u) = <<>> THEN NaN
                ELSE LET m == DigitsValue(Tail(u), 0)
                     IN  IF m.finite THEN Fin(0 - m.n) ELSE NaN
           ELSE DigitsValue(u, 0)

\* Number.isFinite
IsFinite(x) == x.finite

\* toNumber with parseInt in the place of Number: "1a" becomes 1
toNumberParseInt(v, fallback) ==
  IF v.t = "number" THEN v.n
  ELSE IF v.t = "string"
       THEN LET u == Trim(v.s)
                n == IF u # <<>> /\ Head(u) = "-"
                     THEN LET m == DigitsPrefix(Tail(u), 0, FALSE)
                          IN  IF m.finite THEN Fin(0 - m.n) ELSE NaN
                     ELSE DigitsPrefix(u, 0, FALSE)
            IN  IF IsFinite(n) THEN n.n ELSE fallback
       ELSE fallback

\* toNumber, lines 46-53
toNumber(v, fallback) ==
  IF v.t = "number" THEN v.n
  ELSE IF v.t = "string"
       THEN LET n == JsNumber(Trim(v.s)) IN IF IsFinite(n) THEN n.n ELSE fallback
       ELSE fallback

\* toBool, lines 55-59
toBool(v, fallback) ==
  IF v.t = "boolean" THEN v.b
  ELSE IF v.t = "string" THEN v.s = <<"t", "r", "u", "e">>
  ELSE fallback

\* a ?? b
Coalesce(a, b) == IF a.t \in {"null", "undefined"} THEN b ELSE a

\* Boolean(v)
ToBoolean(v) ==
  CASE v.t = "boolean" -> v.b
    [] v.t = "number" -> v.n # 0
    [] v.t = "string" -> v.s # <<>>
    [] v.t = "array" -> TRUE
    [] OTHER -> FALSE

----------------------------------------------------------------------------
(* The form: schema, declared defaults, the services of the list *)

Fields == {"name", "description", "price", "duration", "breakBefore",
           "breakAfter", "tags", "depositRequired"}
NumFields == {"price", "duration", "breakBefore", "breakAfter"}

\* useForm's defaultValues, lines 77-86
DeclaredDefaults ==
  [name |-> Str(<<>>), description |-> Str(<<>>), price |-> Num(0),
   duration |-> Num(30), breakBefore |-> Num(0), breakAfter |-> Num(0),
   tags |-> Arr(<<>>), depositRequired |-> Bool(FALSE)]

NumberOrString(v) == v.t \in {"number", "string"}
Optional(ok, v) == v.t = "undefined" \/ ok

\* serviceSchema without the min(1) rule on name
SchemaAnyName(d) ==
  /\ d.name.t = "string"
  /\ Optional(d.description.t = "string", d.description)
  /\ NumberOrString(d.price)
  /\ NumberOrString(d.duration)
  /\ Optional(NumberOrString(d.breakBefore), d.breakBefore)
  /\ Optional(NumberOrString(d.breakAfter), d.breakAfter)
  /\ Optional(d.tags.t = "array", d.tags)
  /\ Optional(d.depositRequired.t \in {"boolean", "string"}, d.depositRequired)

\* serviceSchema, lines 32-41: does the resolver accept the field values
serviceSchema(d) ==
  /\ d.name.t = "string" /\ Len(d.name.s) >= 1
  /\ Optional(d.description.t = "string", d.description)
  /\ NumberOrString(d.price)
  /\ NumberOrString(d.duration)
  /\ Optional(NumberOrString(d.breakBefore), d.breakBefore)
  /\ Optional(NumberOrString(d.breakAfter), d.breakAfter)
  /\ Optional(d.tags.t = "array", d.tags)
  /\ Optional(d.depositRequired.t \in {"boolean", "string"}, d.depositRequired)

\* the value the resolver hands to onSubmit: description gets its default("")
SchemaOutput(d) ==
  [d EXCEPT !.description = IF @.t = "undefined" THEN Str(<<>>) ELSE @]

\* the rows of the list, as the backend returns them: a complete one, and one
\* with a decimal string and missing columns
Service1 ==
  [id |-> 1, name |-> Str(<<"a">>), description |-> Str(<<"a">>),
   price |-> Num(15), duration |-> Num(5), breakBefore |-> Num(1),
   breakAfter |-> Num(0), tags |-> Arr(<<"a">>), depositRequired |-> Bool(TRUE)]
Service2 ==
  [id |-> 2, name |-> Str(<<"a", "a">>), description |-> Null,
   price |-> Str(<<"1", "5">>), duration |-> Null, breakBefore |-> Null,
   breakAfter |-> Undefined, tags |-> Null, depositRequired |-> Null]
Services == {Service1, Service2}

NoService == [id |-> 0]

\* the values 'Modifier' resets the form to, lines 372-381
ModifierValues(s) ==
  [name |-> Coalesce(s.name, Str(<<>>)),
   description |-> Coalesce(s.description, Str(<<>>)),
   price |-> Coalesce(s.price, Num(0)),
   duration |-> Coalesce(s.duration, Num(30)),
   breakBefore |-> Coalesce(s.breakBefore, Num(0)),
   breakAfter |-> Coalesce(s.breakAfter, Num(0)),
   tags |-> IF s.tags.t = "array" THEN s.tags ELSE Arr(<<>>),
   depositRequired |-> Bool(ToBoolean(s.depositRequired))]

\* form.reset(values) of react-hook-form: the values become the field values
\* AND the new default values (no keepDefaultValues option is passed);
\* form.reset() restores the current default values. Both clear the errors.
ResetTo(values) ==
  /\ draft' = values
  /\ defaultValues' = values
  /\ hasErrors' = FALSE

Reset ==
  /\ draft' = defaultValues
  /\ UNCHANGED defaultValues
  /\ hasErrors' = FALSE

----------------------------------------------------------------------------
(* The salon query and the payload *)

SalonIds == {7}

SalonPending == [status |-> "pending", id |-> 0]

\* salon?.id ?? undefined, line 167
SalonIdOf(q) == IF q.status = "success" THEN Num(q.id) ELSE Undefined

\* cleaned, lines 166-176
Cleaned(data) ==
  [salonId |-> SalonIdOf(salon),
   name |-> data.name,
   description |-> Coalesce(data.description, Str(<<>>)),
   price |-> toNumber(data.price, 0),
   duration |-> toNumber(data.duration, 0),
   breakBefore |-> toNumber(data.breakBefore, 0),
   breakAfter |-> toNumber(data.breakAfter, 0),
   tags |-> IF data.tags.t = "array" THEN data.tags ELSE Arr(<<>>),
   depositRequired |-> toBool(data.depositRequired, FALSE)]

----------------------------------------------------------------------------
(* apiRequest and the mutations *)

\* What apiRequest(method, url, body) can do: resolve with a Response (ok or
\* not, with a body that is JSON or not), or reject with an Error.
Response(status, json) == [kind |-> "response", status |-> status, json |-> json,
                           prefix |-> "", text |-> ""]
Thrown(prefix, text) == [kind |-> "thrown", status |-> 0, json |-> FALSE,
                         prefix |-> prefix, text |-> text]

Outcomes ==
  {Response(200, TRUE), Response(200, FALSE), Response(401, TRUE),
   Response(500, TRUE),
   Thrown("401", "Unauthorized"), Thrown("", "Failed to fetch")}

\* Response.ok
ResOk(o) == o.status >= 200 /\ o.status <= 299

\* the Error a mutationFn rejects with, or NoError when it resolves:
\* the rejection of apiRequest itself, "create failed"/"update failed" after
\* a response that is not ok, the SyntaxError of res.json()
NoError == [prefix |-> "", text |-> ""]
MutationError(o, failedText) ==
  IF o.kind = "thrown" THEN [prefix |-> o.prefix, text |-> o.text]
  ELSE IF ~ResOk(o) THEN [prefix |-> "", text |-> failedText]
  ELSE IF ~o.json THEN [prefix |-> "", text |-> "Unexpected token"]
  ELSE NoError

\* isUnauthorizedError(error): the message is "401: ...Unauthorized"
isUnauthorizedError(e) == e.prefix = "401" /\ e.text = "Unauthorized"

Toast(title, variant) == [title |-> title, variant |-> variant]

\* onApiError, lines 89-104, runs when the response is not ok
ApiErrorToasts(o) ==
  IF o.kind = "response" /\ ~ResOk(o) THEN <<Toast("Erreur", "destructive")>>
  ELSE <<>>

\* onError of both mutations, lines 121-130 and 152-161
ErrorToasts(e) ==
  IF isUnauthorizedError(e) THEN <<Toast("Non autorise", "destructive")>>
  ELSE <<>>

Idle == [status |-> "idle", seq |-> 0]
isPending(m) == m.status = "pending"

\* the state of a mutation's observer after the request r settled: the
\* observer follows the mutation started last
Settled(m, r, status) == IF m.seq = r.seq THEN [m EXCEPT !.status = status] ELSE m

NoOutcome == [kind |-> "none", status |-> 0, json |-> FALSE, prefix |-> "", text |-> ""]

----------------------------------------------------------------------------
(* Initial state: the page is mounted, both queries are loading *)

Init ==
  /\ isDialogOpen = FALSE
  /\ editing = NoService
  /\ draft = DeclaredDefaults
  /\ defaultValues = DeclaredDefaults
  /\ hasErrors = FALSE
  /\ salon = SalonPending
  /\ createServiceMutation = Idle
  /\ updateServiceMutation = Idle
  /\ requests = {}
  /\ nextSeq = 0
  /\ lastOutcome = NoOutcome
  /\ toasts = <<>>
  /\ invalidations = 0
  /\ navTimers = 0
  /\ location = "/services"
  /\ services = {}
  /\ edits = 0

OnPage == location = "/services"

----------------------------------------------------------------------------
(* The queries *)

\* useQuery ["/api/salon"] resolves, line 68; while it has not (or when it
\* failed: retry is false) the data is undefined
SalonQueryResolves ==
  /\ OnPage
  /\ salon.status = "pending"
  /\ \E i \in SalonIds : salon' = [status |-> "success", id |-> i]
  /\ UNCHANGED <<isDialogOpen, editing, draft, defaultValues, hasErrors,
                 createServiceMutation, updateServiceMutation, requests, nextSeq,
                 lastOutcome, toasts, invalidations, navTimers, location,
                 services, edits>>

\* useQuery ["/api/services"] resolves, lines 70-73: the rows are listed
ServicesQueryResolves ==
  /\ OnPage
  /\ services = {}
  /\ services' = Services
  /\ UNCHANGED <<isDialogOpen, editing, draft, defaultValues, hasErrors, salon,
                 createServiceMutation, updateServiceMutation, requests, nextSeq,
                 lastOutcome, toasts, invalidations, navTimers, location, edits>>

----------------------------------------------------------------------------
(* The buttons outside the dialog. The dialog is modal: while it is open,  *)
(* nothing outside it can be clicked.                                      *)

\* 'Ajouter un service', lines 195-199, then the DialogTrigger opens the dialog
ClickAjouter ==
  /\ OnPage
  /\ ~isDialogOpen
  /\ editing' = NoService
  /\ Reset
  /\ isDialogOpen' = TRUE
  /\ UNCHANGED <<salon, createServiceMutation, updateServiceMutation, requests,
                 nextSeq, lastOutcome, toasts, invalidations, navTimers,
                 location, services, edits>>

\* 'Modifier' of the row s, lines 370-383
ClickModifier ==
  /\ OnPage
  /\ ~isDialogOpen
  /\ \E s \in services :
       /\ editing' = s
       /\ ResetTo(ModifierValues(s))
  /\ isDialogOpen' = TRUE
  /\ UNCHANGED <<salon, createServiceMutation, updateServiceMutation, requests,
                 nextSeq, lastOutcome, toasts, invalidations, navTimers,
                 location, services, edits>>

----------------------------------------------------------------------------
(* Inside the dialog *)

\* 'Annuler', line 325 (Escape and a click on the overlay do the same
\* through onOpenChange, line 193)
ClickAnnuler ==
  /\ OnPage
  /\ isDialogOpen
  /\ isDialogOpen' = FALSE
  /\ UNCHANGED <<editing, draft, defaultValues, hasErrors, salon,
                 createServiceMutation, updateServiceMutation, requests, nextSeq,
                 lastOutcome, toasts, invalidations, navTimers, location,
                 services, edits>>

NameInputs == {<<>>, <<"a">>}
TypedInputs == {<<" ", "5">>}

CanEdit == OnPage /\ isDialogOpen /\ edits < MaxEdits

\* the user types in the name input, lines 218-230; once a submit was
\* rejected the field is validated again on each change
TypeName ==
  /\ CanEdit
  /\ \E v \in NameInputs :
       /\ draft' = [draft EXCEPT !.name = Str(v)]
       /\ hasErrors' = (hasErrors /\ Len(v) < 1)
  /\ edits' = edits + 1
  /\ UNCHANGED <<isDialogOpen, editing, defaultValues, salon,
                 createServiceMutation, updateServiceMutation, requests, nextSeq,
                 lastOutcome, toasts, invalidations, navTimers, location,
                 services>>

\* the user types in one of the numeric inputs, lines 231-302: the field
\* value becomes the string typed
TypeNumber ==
  /\ CanEdit
  /\ \E f \in NumFields, v \in TypedInputs :
       draft' = [draft EXCEPT ![f] = Str(v)]
  /\ edits' = edits + 1
  /\ UNCHANGED <<isDialogOpen, editing, defaultValues, hasErrors, salon,
                 createServiceMutation, updateServiceMutation, requests, nextSeq,
                 lastOutcome, toasts, invalidations, navTimers, location,
                 services>>

\* the user flips the switch, lines 311-314
ToggleDeposit ==
  /\ CanEdit
  /\ draft' = [draft EXCEPT !.depositRequired = Bool(~ToBoolean(@))]
  /\ edits' = edits + 1
  /\ UNCHANGED <<isDialogOpen, editing, defaultValues, hasErrors, salon,
                 createServiceMutation, updateServiceMutation, requests, nextSeq,
                 lastOutcome, toasts, invalidations, navTimers, location,
                 services>>

\* the submit button without its disabled attribute
NeverDisabled == FALSE

\* disabled of the submit button, lines 331-334
SubmitDisabled ==
  isPending(createServiceMutation) \/ isPending(updateServiceMutation)

NewRequest(method, id, data) ==
  [seq |-> nextSeq + 1, method |-> method, id |-> id, data |-> data]

\* onSubmit that always creates
onSubmitAlwaysCreate(data) ==
  /\ requests' = requests \cup {NewRequest("POST", 0, Cleaned(data))}
  /\ createServiceMutation' = [status |-> "pending", seq |-> nextSeq + 1]
  /\ UNCHANGED updateServiceMutation

\* onSubmit, lines 164-183
onSubmit(data) ==
  IF editing # NoService
  THEN /\ requests' = requests \cup {NewRequest("PUT", editing.id, Cleaned(data))}
       /\ updateServiceMutation' = [status |-> "pending", seq |-> nextSeq + 1]
       /\ UNCHANGED createServiceMutation
  ELSE /\ requests' = requests \cup {NewRequest("POST", 0, Cleaned(data))}
       /\ createServiceMutation' = [status |-> "pending", seq |-> nextSeq + 1]
       /\ UNCHANGED updateServiceMutation

CanSubmit == OnPage /\ isDialogOpen /\ ~SubmitDisabled

\* form.handleSubmit(onSubmit), line 214, when the resolver rejects the values
SubmitRejected ==
  /\ CanSubmit
  /\ ~serviceSchema(draft)
  /\ hasErrors' = TRUE
  /\ UNCHANGED <<isDialogOpen, editing, draft, defaultValues, salon,
                 createServiceMutation, updateServiceMutation, requests, nextSeq,
                 lastOutcome, toasts, invalidations, navTimers, location,
                 services, edits>>

\* form.handleSubmit(onSubmit), line 214, when the resolver accepts them
SubmitAccepted ==
  /\ CanSubmit
  /\ nextSeq < MaxRequests
  /\ serviceSchema(draft)
  /\ onSubmit(SchemaOutput(draft))
  /\ nextSeq' = nextSeq + 1
  /\ hasErrors' = FALSE
  /\ lastOutcome' = NoOutcome
  /\ UNCHANGED <<isDialogOpen, editing, draft, defaultValues, salon,
                 toasts, invalidations, navTimers, location, services, edits>>

----------------------------------------------------------------------------
(* The requests settle *)

\* onSuccess without the invalidation of the list
InvalidateNothing == UNCHANGED invalidations

\* queryClient.invalidateQueries({ queryKey: ["/api/services"] }), lines 119, 150
InvalidateServices == invalidations' = invalidations + 1

\* createServiceMutation: mutationFn, onSuccess, onError, lines 106-131
CreateSettles ==
  /\ OnPage
  /\ \E r \in requests, o \in Outcomes :
       /\ r.method = "POST"
       /\ requests' = requests \ {r}
       /\ lastOutcome' = o
       /\ LET e == MutationError(o, "create failed")
          IN  IF e = NoError
              THEN /\ toasts' = Append(toasts, Toast("Service cree", "default"))
                   /\ isDialogOpen' = FALSE
                   /\ Reset
                   /\ InvalidateServices
                   /\ createServiceMutation' =
                        Settled(createServiceMutation, r, "success")
                   /\ UNCHANGED <<editing, navTimers>>
              ELSE /\ toasts' = toasts \o ApiErrorToasts(o) \o ErrorToasts(e)
                   /\ navTimers' =
                        IF isUnauthorizedError(e) THEN navTimers + 1 ELSE navTimers
                   /\ createServiceMutation' =
                        Settled(createServiceMutation, r, "error")
                   /\ UNCHANGED <<isDialogOpen, editing, draft, defaultValues,
                                  hasErrors, invalidations>>
  /\ UNCHANGED <<salon, updateServiceMutation, nextSeq, location, services, edits>>

\* updateServiceMutation: mutationFn, onSuccess, onError, lines 133-162
UpdateSettles ==
  /\ OnPage
  /\ \E r \in requests, o \in Outcomes :
       /\ r.method = "PUT"
       /\ requests' = requests \ {r}
       /\ lastOutcome' = o
       /\ LET e == MutationError(o, "update failed")
          IN  IF e = NoError
              THEN /\ toasts' = Append(toasts, Toast("Service modifie", "default"))
                   /\ isDialogOpen' = FALSE
                   /\ editing' = NoService
                   /\ Reset
                   /\ InvalidateServices
                   /\ updateServiceMutation' =
                        Settled(updateServiceMutation, r, "success")
                   /\ UNCHANGED navTimers
              ELSE /\ toasts' = toasts \o ApiErrorToasts(o) \o ErrorToasts(e)
                   /\ navTimers' =
                        IF isUnauthorizedError(e) THEN navTimers + 1 ELSE navTimers
                   /\ updateServiceMutation' =
                        Settled(updateServiceMutation, r, "error")
                   /\ UNCHANGED <<isDialogOpen, editing, draft, defaultValues,
                                  hasErrors, invalidations>>
  /\ UNCHANGED <<salon, createServiceMutation, nextSeq, location, services, edits>>

\* the callback of setTimeout(..., 500), lines 128 and 159: the document is
\* unloaded, and the state of the page with it
NavTimerFires ==
  /\ OnPage
  /\ navTimers > 0
  /\ location' = "/api/login"
  /\ isDialogOpen' = FALSE
  /\ editing' = NoService
  /\ draft' = DeclaredDefaults
  /\ defaultValues' = DeclaredDefaults
  /\ hasErrors' = FALSE
  /\ salon' = SalonPending
  /\ createServiceMutation' = Idle
  /\ updateServiceMutation' = Idle
  /\ requests' = {}
  /\ nextSeq' = 0
  /\ lastOutcome' = NoOutcome
  /\ toasts' = <<>>
  /\ invalidations' = 0
  /\ navTimers' = 0
  /\ services' = {}
  /\ edits' = 0

Next ==
  \/ SalonQueryResolves
  \/ ServicesQueryResolves
  \/ ClickAjouter
  \/ ClickModifier
  \/ ClickAnnuler
  \/ TypeName
  \/ TypeNumber
  \/ ToggleDeposit
  \/ SubmitRejected
  \/ SubmitAccepted
  \/ CreateSettles
  \/ UpdateSettles
  \/ NavTimerFires

Spec == Init /\ [][Next]_vars

----------------------------------------------------------------------------------------------------------------------------------------
(* A second specification for the coercion of the numeric fields: the      *)
(* dialog is open in create mode with a valid name; the numeric fields     *)
(* hold numbers, or nothing, and the user types any string of at most      *)
(* MaxLen characters into one of them before submitting.                   *)

RECURSIVE StringsUpTo(_)
StringsUpTo(n) ==
  IF n = 0 THEN {<<>>}
  ELSE LET shorter == StringsUpTo(n - 1)
       IN  shorter \cup {Append(s, c) : s \in shorter, c \in Chars}

FieldInputs == {Num(0), Num(0 - 3), Num(15), Undefined}

InitCoerce ==
  /\ isDialogOpen = TRUE
  /\ editing = NoService
  /\ \E f \in NumFields, v \in FieldInputs :
       draft = [DeclaredDefaults EXCEPT !.name = Str(<<"a">>), ![f] = v]
  /\ defaultValues = DeclaredDefaults
  /\ hasErrors = FALSE
  /\ salon = SalonPending
  /\ createServiceMutation = Idle
  /\ updateServiceMutation = Idle
  /\ requests = {}
  /\ nextSeq = 0
  /\ lastOutcome = NoOutcome
  /\ toasts = <<>>
  /\ invalidations = 0
  /\ navTimers = 0
  /\ location = "/services"
  /\ services = Services
  /\ edits = 0

\* the user types a string in one of the numeric inputs, lines 231-302
TypeAnyNumber ==
  /\ OnPage
  /\ isDialogOpen
  /\ edits = 0
  /\ \E f \in NumFields, s \in StringsUpTo(MaxLen) :
       draft' = [draft EXCEPT ![f] = Str(s)]
  /\ edits' = edits + 1
  /\ UNCHANGED <<isDialogOpen, editing, defaultValues, hasErrors, salon,
                 createServiceMutation, updateServiceMutation, requests, nextSeq,
                 lastOutcome, toasts, invalidations, navTimers, location,
                 services>>

NextCoerce ==
  \/ TypeAnyNumber
  \/ SubmitRejected
  \/ SubmitAccepted

SpecCoerce == InitCoerce /\ [][NextCoerce]_vars

----------------------------------------------------------------------------
(* Properties *)

\* the requests a step hands to apiRequest, and those it settles
Issued == requests' \ requests
SettledNow == requests \ requests'
StaysOnPage == location' = "/services"

\* C1: every accepted submit issues exactly one request: PUT
\* /api/services/<editing.id> when an editing target is set at submit time,
\* POST /api/services when it is null; never both, never an update of
\* another id.
C1_OneRequestPerSubmit ==
  [][/\ SubmitAccepted => Cardinality(Issued) = 1
     /\ \A r \in Issued :
          IF editing # NoService
          THEN r.method = "PUT" /\ r.id = editing.id
          ELSE r.method = "POST"]_vars

C1_Witness ==
  \E r \in requests :
    /\ r.method = "PUT"
    /\ editing = Service2
    /\ r.id = 2

\* C2: when the name field is the empty string, submitting sends no request
\* and leaves the dialog, the editing target and the draft as they were.
C2_EmptyNameSendsNothing ==
  [][((SubmitRejected \/ SubmitAccepted) /\ draft.name = Str(<<>>)) =>
       /\ requests' = requests
       /\ isDialogOpen' = isDialogOpen
       /\ editing' = editing
       /\ draft' = draft]_vars

C2_Witness ==
  /\ hasErrors
  /\ draft.name = Str(<<>>)
  /\ draft.price = Str(<<" ", "5">>)
  /\ isDialogOpen
  /\ requests = {}
  /\ nextSeq = 0

\* the decimal numeral of a natural number
DigitChar(d) ==
  CASE d = 0 -> "0" [] d = 1 -> "1" [] d = 2 -> "2" [] d = 3 -> "3"
    [] d = 4 -> "4" [] d = 5 -> "5" [] d = 6 -> "6" [] d = 7 -> "7"
    [] d = 8 -> "8" [] d = 9 -> "9"

RECURSIVE NatNumeral(_)
NatNumeral(n) ==
  IF n < 10 THEN <<DigitChar(n)>>
  ELSE Append(NatNumeral(n \div 10), DigitChar(n % 10))

Numeral(n) == IF n < 0 THEN <<"-">> \o NatNumeral(0 - n) ELSE NatNumeral(n)

Spaces(k) == [i \in 1..k |-> " "]

RECURSIVE Pow10(_)
Pow10(k) == IF k = 0 THEN 1 ELSE 10 * Pow10(k - 1)

\* the numbers a string of at most MaxLen characters can denote
NumRange == (0 - Pow10(MaxLen))..Pow10(MaxLen)

\* s is the numeral of n between white space, or white space only and n is 0
ParsesTo(s, n) ==
  \/ n = 0 /\ s = Spaces(Len(s))
  \/ LET num == Numeral(n)
         pad == Len(s) - Len(num)
     IN  \E i \in 0..pad : s = Spaces(i) \o num \o Spaces(pad - i)

\* the numbers each string of at most MaxLen characters parses to
Denoted == [s \in StringsUpTo(MaxLen) |-> {n \in NumRange : ParsesTo(s, n)}]

\* C3: the payload has price, duration, breakBefore and breakAfter as
\* numbers: a number input unchanged, a string that parses (after trimming)
\* to a finite number as that number, any other string or a missing value
\* as 0.
C3_NumbersCoerced ==
  [][\A r \in Issued : \A f \in NumFields :
       LET v == draft[f]
           p == r.data[f]
       IN  /\ p \in Int
           /\ v.t = "number" => p = v.n
           /\ v.t = "string" =>
                IF Denoted[v.s] # {} THEN p \in Denoted[v.s] ELSE p = 0
           /\ v.t = "undefined" => p = 0]_vars

C3_Witness ==
  \E r \in requests :
    /\ draft.breakAfter = Str(<<" ", "5">>)
    /\ r.data.breakAfter = 5
    /\ draft.price = Num(15)
    /\ r.data.price = 15

\* C4: at most one create-or-update request is in flight at any time.
C4_OneInFlight == Cardinality(requests) <= 1

\* a create is pending while the dialog, cancelled and reopened with
\* 'Modifier', is open again
C4_Witness ==
  /\ isDialogOpen
  /\ editing # NoService
  /\ \E r \in requests : r.method = "POST"
  /\ nextSeq < MaxRequests

\* a request that failed: a response that is not ok, or apiRequest threw
Failed(o) == (o.kind = "response" /\ ~ResOk(o)) \/ o.kind = "thrown"

ErrorToastShown ==
  /\ Len(toasts') > Len(toasts)
  /\ toasts'[Len(toasts')].variant = "destructive"

\* C5: every create or update request that fails (response not ok, or an
\* error thrown by the request itself) ends with an error toast.
C5_FailureToasts ==
  [][(StaysOnPage /\ SettledNow # {} /\ Failed(lastOutcome')) =>
       ErrorToastShown]_vars

\* the mutation succeeded: the response is ok and its body is read
Succeeded(o) == o.kind = "response" /\ ResOk(o) /\ o.json

\* C6: the list cache is invalidated after every successful create and
\* every successful update, and by nothing else (no failed request, no
\* cancelled dialog, no rejected submit).
C6_InvalidatedOnSuccessOnly ==
  [][StaysOnPage =>
       IF SettledNow # {} /\ Succeeded(lastOutcome')
       THEN invalidations' = invalidations + 1
       ELSE invalidations' = invalidations]_vars

C6_Witness ==
  /\ invalidations = MaxRequests
  /\ Succeeded(lastOutcome)
  /\ requests = {}

\* C7: every create or update payload has the salonId of the salon the
\* "/api/salon" query returned.
C7_PayloadScopedToSalon ==
  [][\A r \in Issued :
       /\ salon.status = "success"
       /\ r.data.salonId = Num(salon.id)]_vars

\* C8: clicking 'Ajouter un service' leaves the dialog open in create mode
\* with the draft equal to the defaults declared in useForm.
C8_AjouterShowsDeclaredDefaults ==
  [][ClickAjouter =>
       /\ isDialogOpen'
       /\ editing' = NoService
       /\ draft' = DeclaredDefaults]_vars

\* the request r was submitted from another dialog than the one now open:
\* a create while an editing target is set, an update of another row
FromEarlierDialog(r) ==
  \/ r.method = "POST" /\ editing # NoService
  \/ r.method = "PUT" /\ editing.id # r.id

\* C9: the completion of a request never closes a dialog, nor resets a
\* draft or an editing target, that the user opened after the request was
\* submitted.
C9_LateCompletionKeepsDialog ==
  [][(StaysOnPage /\ isDialogOpen /\ \E r \in SettledNow : FromEarlierDialog(r)) =>
       /\ isDialogOpen'
       /\ draft' = draft
       /\ editing' = editing]_vars

\* the backend rejected the request as unauthorized
Rejected401(o) ==
  \/ o.kind = "response" /\ o.status = 401
  \/ o.kind = "thrown" /\ o.prefix = "401"

====
